---- MODULE Spec2Model ----
(***************************************************************************)
(* Motion core of the card sorter (codex_sorter/libraries/printer/         *)
(* xl_kinematics.py): the tracked head position _current_pos, the relative *)
(* jog primitive _jog_delta, move_head, home_all_axes, move_to_input_stack *)
(* and the sensor-gated descent lower_until_contact.                       *)
(*                                                                         *)
(* Lengths are millimetres.  The code holds them in floats; the model      *)
(* holds them in integers, which is exact for the integer configuration    *)
(* of config.py and for integer targets and steps.                         *)
(*                                                                         *)
(* The external collaborators are the OctoPrint client (client.home,       *)
(* client.jog, each of which may raise) and the contact sensor             *)
(* (sensor.is_pressed).  The physical stage is a position that client.home *)
(* sets to firmware zero and every accepted client.jog shifts by its       *)
(* delta.                                                                  *)
(***************************************************************************)
EXTENDS Integers, Sequences, FiniteSets, TLC

VARIABLES
    pos,        \* _current_pos: the tracked head position [x, y, z]
    stage,      \* physical position of the stage (external)
    njog,       \* client.jog calls made by the current / most recent call
    jog,        \* delta handed to the most recent client.jog
    jogOk,      \* whether the most recent client.jog returned (did not raise)
    before,     \* _current_pos at the entry of the most recent _jog_delta that reached client.jog
    acc,        \* component-wise sum of the deltas of all accepted jogs
    exc,        \* exception raised by the current / most recent call: "none", "jog", "home", "limit"
    op,         \* the current / most recent call of the public interface
    req,        \* its arguments
    pre,        \* _current_pos when it was entered
    pc,         \* "idle", or "lowering" inside the loop of lower_until_contact
    traveled,   \* local of lower_until_contact
    polls,      \* sensor.is_pressed() calls made by the current / most recent descent
    lastPoll,   \* value of the most recent sensor.is_pressed()
    calls,      \* calls of the public interface made so far
    homes,      \* client.home() calls that returned so far
    clean,      \* no external call has raised so far
    movesOnly,  \* a home succeeded and only successful move_head calls followed it
    lastTarget, \* per axis, the last target requested by move_head since that home
    dest,       \* value returned by the most recent kinematics()
    firstKin,   \* argument and value of the first kinematics() of the run, or None
    fanoff,     \* client.fan_off() of the current / most recent call: "none", "ok", "raised"
    \* main.py, main(iterations):
    mpc,        \* the statement of main() that runs next, "finished" or "aborted"
    iterations, \* its argument
    i,          \* sort cycles completed
    fan,        \* the suction motor: "off" or "on"
    offCalled,  \* fan.off() has been called
    card,       \* card_type: the value of the last run_ocr_and_get_type()
    firstCard,  \* the value of the first run_ocr_and_get_type() of the cycle
    attempts,   \* run_ocr_and_get_type() calls of the cycle
    target,     \* the value of the last kinematics(card_type)
    sent,       \* the last command handed to the OctoPrint client
    sentOk,     \* whether the client accepted it (did not raise)
    tick,       \* parity of the number of commands handed to the client
    cause,      \* "none", or the statement whose exception ended main()
    mhomes,     \* client.home() calls that returned
    log,        \* the steps of the current cycle that returned, in order
    gates,      \* wait_for_button() calls that have returned
    btn,        \* value of the most recent is_pressed() read by main()
    releases,   \* client.fan_off() calls that returned in the current cycle
    wait,       \* the current / most recent wait_for_button(): which one, and its polls so far
    \* simple_ocr.py, number_extraction(txt):
    inTxt,      \* its argument, a sequence of characters
    num,        \* its value, or None before the call
    \* simple_ocr.py, crop_image(img, x, y, w, h):
    cropIn,     \* the shape of img and the rectangle asked for
    cropOut,    \* the region returned, or None before the call
    \* simple_ocr.py, get_line(text, line_num):
    lineIn,     \* its arguments; text is a sequence of characters
    lineOut     \* how the call ended, or None before the call

libVars == <<pos, stage, njog, jog, jogOk, before, acc, exc, op, req, pre, pc,
             traveled, polls, lastPoll, calls, homes, clean, movesOnly, lastTarget,
             dest, firstKin, fanoff>>

mainVars == <<mpc, iterations, i, fan, offCalled, card, firstCard, attempts,
              target, sent, sentOk, tick, cause, mhomes, log, gates, btn, releases,
              wait>>

ocrVars == <<inTxt, num, cropIn, cropOut, lineIn, lineOut>>

vars == <<libVars, mainVars, ocrVars>>

----------------------------------------------------------------------------
(* Configuration (config.py) *)

POST_HOME_X == 26
POST_HOME_Y == 425
POST_HOME_Z == 5
INPUT_STACK_X == 235
INPUT_STACK_Y == 106
INPUT_STACK_Z == 60
TILE_STEP == 90
CLEARANCE == 35     \* the literal 35.0 of kinematics()

(* Bounds of the model *)

MaxCalls == 3       \* calls of the public interface in one run
MaxSteps == 5       \* downward jogs explored in one descent
MaxCycles == 2      \* largest argument of main(iterations)
MaxTxt == 5         \* longest argument of number_extraction
MaxPolls == 2       \* polls counted in one wait_for_button (more are not told apart)
MaxDim == 3         \* largest height and width of the image given to crop_image
MaxLine == 6        \* longest text given to get_line

(* Python's None and a present optional argument *)
None == <<>>
Some(v) == <<v>>
Val(o) == o[1]

Axes == {"x", "y", "z"}
Vec(a, b, c) == [x |-> a, y |-> b, z |-> c]
Zero == Vec(0, 0, 0)
Add(p, d) == [a \in Axes |-> p[a] + d[a]]

PostHome == Vec(POST_HOME_X, POST_HOME_Y, POST_HOME_Z)

(* Arguments the callers are drawn from *)
XTargets == {None, Some(10), Some(POST_HOME_X)}
YTargets == {None, Some(0)}
ZTargets == {None, Some(40)}
StepVals == {1, 2}
MaxTravelVals == {None, Some(0), Some(4), Some(5)}
SPECIAL == "Colossal Dreadmaw"
CardNames == {None, Some(""), Some(SPECIAL), Some("Lightning Bolt")}

----------------------------------------------------------------------------
(* The part of the state that the motion primitives read and write. *)

World == [pos |-> pos, stage |-> stage, njog |-> njog, jog |-> jog,
          jogOk |-> jogOk, before |-> before, acc |-> acc, exc |-> exc,
          homes |-> homes, fanoff |-> fanoff]

Commit(w) ==
    /\ pos' = w.pos
    /\ stage' = w.stage
    /\ njog' = w.njog
    /\ jog' = w.jog
    /\ jogOk' = w.jogOk
    /\ before' = w.before
    /\ acc' = w.acc
    /\ exc' = w.exc
    /\ homes' = w.homes
    /\ fanoff' = w.fanoff

(* A call starts with no jog sent and no exception pending. *)
Enter(w) == [w EXCEPT !.njog = 0, !.exc = "none", !.fanoff = "none"]

(* client.jog(x=dx, y=dy, z=dz): the stage accepts the jog and moves by the
   delta, or the call raises and the stage does not move. *)
client_jog(w, d, accept) ==
    [w EXCEPT !.njog = @ + 1,
              !.jog = d,
              !.jogOk = accept,
              !.before = w.pos,
              !.stage = IF accept THEN Add(@, d) ELSE @,
              !.acc = IF accept THEN Add(@, d) ELSE @]

(* client.home(): firmware home; the stage goes to firmware zero, or the call raises. *)
client_home(w, accept) ==
    IF accept THEN [w EXCEPT !.stage = Zero, !.homes = @ + 1]
    ELSE [w EXCEPT !.exc = "home"]

(* Faulty variants of _jog_delta: the tracker written before the send; the
   zero-delta guard left out; the z delta not applied. *)
_jog_delta_update_first(w, d, accept) ==
    IF d.x = d.y /\ d.y = d.z /\ d.z = 0
    THEN w
    ELSE LET s == client_jog(w, d, accept)
             t == [s EXCEPT !.pos = [x |-> @.x + d.x, y |-> @.y + d.y, z |-> @.z + d.z]]
         IN IF s.jogOk THEN t ELSE [t EXCEPT !.exc = "jog"]

_jog_delta_no_zero_guard(w, d, accept) ==
    LET s == client_jog(w, d, accept)
    IN IF s.jogOk
       THEN [s EXCEPT !.pos = [x |-> @.x + d.x, y |-> @.y + d.y, z |-> @.z + d.z]]
       ELSE [s EXCEPT !.exc = "jog"]

_jog_delta_z_lost(w, d, accept) ==
    IF d.x = d.y /\ d.y = d.z /\ d.z = 0
    THEN w
    ELSE LET s == client_jog(w, d, accept)
         IN IF s.jogOk
            THEN [s EXCEPT !.pos = [x |-> @.x + d.x, y |-> @.y + d.y, z |-> @.z]]
            ELSE [s EXCEPT !.exc = "jog"]

(* _jog_delta: a zero delta returns at once; otherwise client.jog, and the
   tracker is advanced only when client.jog has returned; an exception of
   client.jog is re-raised. *)
_jog_delta(w, d, accept) ==
    IF d.x = d.y /\ d.y = d.z /\ d.z = 0
    THEN w
    ELSE LET s == client_jog(w, d, accept)
         IN IF s.jogOk
            THEN [s EXCEPT !.pos = [x |-> @.x + d.x, y |-> @.y + d.y, z |-> @.z + d.z]]
            ELSE [s EXCEPT !.exc = "jog"]

(* Faulty variant of move_head: the absolute target handed on as the delta. *)
move_head_target_as_delta(w, x, y, z, accept) ==
    LET dx == IF x # None THEN Val(x) ELSE 0
        dy == IF y # None THEN Val(y) ELSE 0
        dz == IF z # None THEN Val(z) ELSE 0
    IN _jog_delta(w, Vec(dx, dy, dz), accept)

(* move_head: absolute targets, None for an axis left alone. *)
move_head(w, x, y, z, accept) ==
    LET dx == IF x # None THEN Val(x) - w.pos.x ELSE 0
        dy == IF y # None THEN Val(y) - w.pos.y ELSE 0
        dz == IF z # None THEN Val(z) - w.pos.z ELSE 0
    IN _jog_delta(w, Vec(dx, dy, dz), accept)

(* Faulty variant of home_all_axes: the tracker reset to firmware zero as
   soon as client.home() has returned. *)
home_all_axes_reset_first(w, homeAccept, accept) ==
    LET h == client_home(w, homeAccept)
    IN IF h.exc = "home" THEN h
       ELSE _jog_delta([h EXCEPT !.pos = Zero],
                       Vec(POST_HOME_X, POST_HOME_Y, POST_HOME_Z), accept)

(* home_all_axes: client.home(), whose exception is re-raised, then the
   jog by the post-home offset. *)
home_all_axes(w, homeAccept, accept) ==
    LET h == client_home(w, homeAccept)
    IN IF h.exc = "home" THEN h
       ELSE _jog_delta(h, Vec(POST_HOME_X, POST_HOME_Y, POST_HOME_Z), accept)

(* move_to_input_stack *)
move_to_input_stack(w, accept) ==
    _jog_delta(w, Vec(INPUT_STACK_X - POST_HOME_X,
                      INPUT_STACK_Y - POST_HOME_Y,
                      INPUT_STACK_Z - POST_HOME_Z), accept)

(* Faulty variants of the loop of lower_until_contact: the travel guard
   tested before the sensor; the guard written with > ; the sensor read
   after the step instead of before it. *)
lower_until_contact_guard_first(w, step_mm, max_travel, trav, pressed, accept) ==
    IF max_travel # None /\ trav >= Val(max_travel)
    THEN [w |-> [w EXCEPT !.exc = "limit"], traveled |-> trav, done |-> TRUE]
    ELSE IF pressed
    THEN [w |-> w, traveled |-> trav, done |-> TRUE]
    ELSE LET s == _jog_delta(w, Vec(0, 0, 0 - step_mm), accept)
         IN IF s.exc = "jog"
            THEN [w |-> s, traveled |-> trav, done |-> TRUE]
            ELSE [w |-> s, traveled |-> trav + step_mm, done |-> FALSE]

lower_until_contact_guard_gt(w, step_mm, max_travel, trav, pressed, accept) ==
    IF pressed
    THEN [w |-> w, traveled |-> trav, done |-> TRUE]
    ELSE IF max_travel # None /\ trav > Val(max_travel)
    THEN [w |-> [w EXCEPT !.exc = "limit"], traveled |-> trav, done |-> TRUE]
    ELSE LET s == _jog_delta(w, Vec(0, 0, 0 - step_mm), accept)
         IN IF s.exc = "jog"
            THEN [w |-> s, traveled |-> trav, done |-> TRUE]
            ELSE [w |-> s, traveled |-> trav + step_mm, done |-> FALSE]

lower_until_contact_step_first(w, step_mm, max_travel, trav, pressed, accept) ==
    IF max_travel # None /\ trav >= Val(max_travel)
    THEN [w |-> [w EXCEPT !.exc = "limit"], traveled |-> trav, done |-> TRUE]
    ELSE LET s == _jog_delta(w, Vec(0, 0, 0 - step_mm), accept)
         IN IF s.exc = "jog"
            THEN [w |-> s, traveled |-> trav, done |-> TRUE]
            ELSE [w |-> s, traveled |-> trav + step_mm, done |-> pressed]

(* Faulty variant of the loop: an absent max_travel read as a limit of 0. *)
lower_until_contact_none_as_zero(w, step_mm, max_travel, trav, pressed, accept) ==
    IF pressed
    THEN [w |-> w, traveled |-> trav, done |-> TRUE]
    ELSE IF trav >= (IF max_travel # None THEN Val(max_travel) ELSE 0)
    THEN [w |-> [w EXCEPT !.exc = "limit"], traveled |-> trav, done |-> TRUE]
    ELSE LET s == _jog_delta(w, Vec(0, 0, 0 - step_mm), accept)
         IN IF s.exc = "jog"
            THEN [w |-> s, traveled |-> trav, done |-> TRUE]
            ELSE [w |-> s, traveled |-> trav + step_mm, done |-> FALSE]

(* Two more: the travel counted twice per step; the guard one step late. *)
lower_until_contact_travel_twice(w, step_mm, max_travel, trav, pressed, accept) ==
    IF pressed
    THEN [w |-> w, traveled |-> trav, done |-> TRUE]
    ELSE IF max_travel # None /\ trav >= Val(max_travel)
    THEN [w |-> [w EXCEPT !.exc = "limit"], traveled |-> trav, done |-> TRUE]
    ELSE LET s == _jog_delta(w, Vec(0, 0, 0 - step_mm), accept)
         IN IF s.exc = "jog"
            THEN [w |-> s, traveled |-> trav, done |-> TRUE]
            ELSE [w |-> s, traveled |-> trav + step_mm + step_mm, done |-> FALSE]

lower_until_contact_guard_late(w, step_mm, max_travel, trav, pressed, accept) ==
    IF pressed
    THEN [w |-> w, traveled |-> trav, done |-> TRUE]
    ELSE IF max_travel # None /\ trav >= Val(max_travel) + step_mm
    THEN [w |-> [w EXCEPT !.exc = "limit"], traveled |-> trav, done |-> TRUE]
    ELSE LET s == _jog_delta(w, Vec(0, 0, 0 - step_mm), accept)
         IN IF s.exc = "jog"
            THEN [w |-> s, traveled |-> trav, done |-> TRUE]
            ELSE [w |-> s, traveled |-> trav + step_mm, done |-> FALSE]

(* One pass of the loop of lower_until_contact: the poll of the sensor, the
   travel guard, the downward jog.  The result holds the world, the local
   traveled and whether the call is over. *)
lower_until_contact(w, step_mm, max_travel, trav, pressed, accept) ==
    IF pressed
    THEN [w |-> w, traveled |-> trav, done |-> TRUE]
    ELSE IF max_travel # None /\ trav >= Val(max_travel)
    THEN [w |-> [w EXCEPT !.exc = "limit"], traveled |-> trav, done |-> TRUE]
    ELSE LET s == _jog_delta(w, Vec(0, 0, 0 - step_mm), accept)
         IN IF s.exc = "jog"
            THEN [w |-> s, traveled |-> trav, done |-> TRUE]
            ELSE [w |-> s, traveled |-> trav + step_mm, done |-> FALSE]

(* client.fan_off(): it returns, or it raises (also when the client has no
   such method). *)
client_lib_fan_off(w, accept) ==
    [w EXCEPT !.fanoff = IF accept THEN "ok" ELSE "raised"]

(* Faulty variant of drop_card: the exception of client.fan_off() re-raised. *)
drop_card_reraise(w, accept) ==
    LET f == client_lib_fan_off(w, accept)
    IN IF f.fanoff = "raised" THEN [f EXCEPT !.exc = "fan_off"] ELSE f

(* drop_card: try: client.fan_off() except Exception: log *)
drop_card(w, accept) ==
    LET f == client_lib_fan_off(w, accept)
    IN IF f.fanoff = "raised" THEN [f EXCEPT !.exc = "none"] ELSE f

(* Python's truth value of an Optional[str]: None and "" are false. *)
Truthy(card_name) == card_name # None /\ Val(card_name) # ""

(* Faulty variants of kinematics: the special-case branch left out; the
   clearance taken above the tracked z (as the docstring words it) instead
   of above POST_HOME_Z; the offset applied to the tracked x/y and written
   back, so that calls accumulate. *)
kinematics_no_special(w, card_name) ==
    LET target_z == POST_HOME_Z + CLEARANCE
        target_x == IF ~Truthy(card_name) THEN POST_HOME_X - TILE_STEP ELSE POST_HOME_X
        target_y == IF ~Truthy(card_name) THEN POST_HOME_Y ELSE POST_HOME_Y + TILE_STEP
    IN [w |-> w, result |-> Vec(target_x, target_y, target_z)]

kinematics_above_current_z(w, card_name) ==
    LET target_z == w.pos.z + CLEARANCE
        target_x == IF ~Truthy(card_name) THEN POST_HOME_X - TILE_STEP
                    ELSE IF Val(card_name) = SPECIAL THEN POST_HOME_X + TILE_STEP
                    ELSE POST_HOME_X
        target_y == IF ~Truthy(card_name) THEN POST_HOME_Y
                    ELSE IF Val(card_name) = SPECIAL THEN POST_HOME_Y
                    ELSE POST_HOME_Y + TILE_STEP
    IN [w |-> w, result |-> Vec(target_x, target_y, target_z)]

kinematics_accumulating(w, card_name) ==
    LET target_z == POST_HOME_Z + CLEARANCE
        target_x == IF ~Truthy(card_name) THEN w.pos.x - TILE_STEP
                    ELSE IF Val(card_name) = SPECIAL THEN w.pos.x + TILE_STEP
                    ELSE w.pos.x
        target_y == IF ~Truthy(card_name) THEN w.pos.y
                    ELSE IF Val(card_name) = SPECIAL THEN w.pos.y
                    ELSE w.pos.y + TILE_STEP
    IN [w |-> [w EXCEPT !.pos = Vec(target_x, target_y, @.z)],
        result |-> Vec(target_x, target_y, target_z)]

(* kinematics: the destination of a card from its OCR result.  It is handed
   the module state w, which it neither reads nor writes. *)
kinematics(w, card_name) ==
    LET target_z == POST_HOME_Z + CLEARANCE
        target_x == IF ~Truthy(card_name) THEN POST_HOME_X - TILE_STEP
                    ELSE IF Val(card_name) = SPECIAL THEN POST_HOME_X + TILE_STEP
                    ELSE POST_HOME_X
        target_y == IF ~Truthy(card_name) THEN POST_HOME_Y
                    ELSE IF Val(card_name) = SPECIAL THEN POST_HOME_Y
                    ELSE POST_HOME_Y + TILE_STEP
    IN [w |-> w, result |-> Vec(target_x, target_y, target_z)]

----------------------------------------------------------------------------
(* main.py.  main() drives the printer with G-code and with helpers of its
   own; it does not use the tracked position above.  Its collaborators are
   taken at the interface main() uses: client.home(), client.send_gcode(),
   client.fan_off(), button.is_pressed(), fan.off(), and the capture and
   OCR pipeline behind run_ocr_and_get_type(). *)

FRONT_X == 300
BED_DOWN_Z == -60
INPUT_X == 100
INPUT_Y == 0
SAFE_Z == 20
FEEDRATE == 3000            \* default of move_head(..., feedrate=3000)
LOWER_FEEDRATE == 1500      \* "G1 Z-{step_mm} F1500"
LOWER_HALF_MM == 1          \* step_mm = .5, in units of 0.5 mm
LIFT_Z == 5                 \* move_head(client, z=5) of drop_card

(* A command handed to the client.  down: relative downward travel in
   units of 0.5 mm (the G1 of the descent), 0 otherwise. *)
Cmd(g, x, y, z, f, down) == [g |-> g, x |-> x, y |-> y, z |-> z, f |-> f, down |-> down]
NoCmd == Cmd("none", None, None, None, 0, 0)
HomeCmd == Cmd("home", None, None, None, 0, 0)
FanOffCmd == Cmd("fan_off", None, None, None, 0, 0)

(* The client as main() sees it. *)
Rig == [sent |-> sent, sentOk |-> sentOk, tick |-> tick, mhomes |-> mhomes,
        releases |-> releases]

(* client.send_gcode(cmd), client.home(), client.fan_off() *)
send_gcode(r, cmd, accept) ==
    [r EXCEPT !.sent = cmd, !.sentOk = accept, !.tick = 1 - @]

printer_home_all_axes(r, accept) ==
    [r EXCEPT !.sent = HomeCmd, !.sentOk = accept, !.tick = 1 - @,
              !.mhomes = IF accept THEN @ + 1 ELSE @]

client_fan_off(r, accept) ==
    [r EXCEPT !.sent = FanOffCmd, !.sentOk = accept, !.tick = 1 - @,
              !.releases = IF accept THEN @ + 1 ELSE @]

(* move_head of main.py: "G1" with the axes that are not None, then the feedrate. *)
main_move_head(r, x, y, z, accept) ==
    send_gcode(r, Cmd("G1", x, y, z, FEEDRATE, 0), accept)

(* The three commands of one pass of lower_until_contact of main.py. *)
main_lower_until_contact(k) ==
    CASE k = 1 -> Cmd("G91", None, None, None, 0, 0)
      [] k = 2 -> Cmd("G1", None, None, None, LOWER_FEEDRATE, LOWER_HALF_MM)
      [] k = 3 -> Cmd("G90", None, None, None, 0, 0)

(* The names the card lookup is drawn from ("" when it finds none), and
   str.upper() on them. *)
MainLabels == {"", "a", "B", "Lightning Bolt"}

(* capture_image_at_focus(): a frame, or None when the camera cannot be
   opened or the read fails. *)
Frames == {None, Some("frame")}

(* What the OCR and the parsing of one frame are drawn from: the text of
   mini_ocr ("" on an OCR error or a blank crop), the collector number and
   the set code parsed from it ("" when there is none). *)
RawTexts == {"", "129/249 R M21"}
Numbers == {"", "129"}
SetCodes == {"", "M21"}

(* preprocessing(image_input): rotate_image reads img.shape, which None does
   not have. *)
preprocessing(image_input) ==
    IF image_input = None
    THEN [exc |-> "AttributeError", img |-> None]
    ELSE [exc |-> "none", img |-> image_input]

(* img_to_name(image): "" when the OCR text, the number, the set code or
   the looked-up name is empty. *)
img_to_name(image, raw_text, number, set_code, name) ==
    IF raw_text = "" THEN ""
    ELSE IF number = "" \/ set_code = "" THEN ""
    ELSE name

(* run_ocr_and_get_type(): img = capture_image_at_focus();
   prepped = preprocessing(img); name = img_to_name(prepped); return name *)
run_ocr_and_get_type(img, raw_text, number, set_code, name) ==
    LET prepped == preprocessing(img)
    IN IF prepped.exc # "none"
       THEN [exc |-> prepped.exc, name |-> ""]
       ELSE [exc |-> "none",
             name |-> img_to_name(prepped.img, raw_text, number, set_code, name)]
Upper(str) ==
    CASE str = "a" -> "A"
      [] str = "Lightning Bolt" -> "LIGHTNING BOLT"
      [] OTHER -> str

mapping ==
    [A |-> Vec(150, 0, 10),
     B |-> Vec(150, 20, 10),
     C |-> Vec(150, 40, 10),
     UNKNOWN |-> Vec(150, -20, 10)]

(* Faulty variant of kinematics of main.py: mapping[...] without the fallback. *)
main_kinematics_no_fallback(card_type) ==
    IF Upper(card_type) \in DOMAIN mapping
    THEN [exc |-> "none", result |-> mapping[Upper(card_type)]]
    ELSE [exc |-> "KeyError", result |-> mapping["UNKNOWN"]]

(* kinematics of main.py: mapping.get(card_type.upper(), mapping["UNKNOWN"]) *)
main_kinematics(card_type) ==
    IF Upper(card_type) \in DOMAIN mapping
    THEN [exc |-> "none", result |-> mapping[Upper(card_type)]]
    ELSE [exc |-> "none", result |-> mapping["UNKNOWN"]]

(* Faulty variant of step e) of the cycle: z first. *)
DestMoves_z_first(tgt) ==
    << [x |-> None, y |-> None, z |-> Some(tgt.z)],
       [x |-> Some(tgt.x), y |-> Some(tgt.y), z |-> None] >>

(* Step e) of the cycle: move_head(x=target["x"], y=target["y"]), then
   move_head(z=target["z"]). *)
DestMoves(tgt) ==
    << [x |-> Some(tgt.x), y |-> Some(tgt.y), z |-> None],
       [x |-> None, y |-> None, z |-> Some(tgt.z)] >>

(* Faulty variant of drop_card: the head lifted, the card not released. *)
main_drop_card_lift_only(r, k, accept) ==
    main_move_head(r, None, None, Some(LIFT_Z), accept)

(* drop_card of main.py, its k-th call on the client: client.fan_off(),
   then move_head(client, z=5). *)
main_drop_card(r, k, accept) ==
    IF k = 1 THEN client_fan_off(r, accept)
    ELSE main_move_head(r, None, None, Some(LIFT_Z), accept)

(* Faulty variant: the exception swallowed and the run carried on. *)
Proceed_swallow(nxt, ok) == nxt

(* main() catches nothing: an exception of a statement ends the run. *)
Proceed(nxt, ok) == IF ok THEN nxt ELSE "aborted"

(* Faulty variant of the loop head: one cycle too many. *)
LoopHead_inclusive(done, n) == IF done <= n THEN "input" ELSE "fan_off"

(* for i in range(iterations) *)
LoopHead(done, n) == IF done < n THEN "input" ELSE "fan_off"

(* main() before its first statement. *)
MainFresh(n) ==
    /\ mpc = "gate1"
    /\ iterations = n
    /\ i = 0
    /\ fan = "off"
    /\ offCalled = FALSE
    /\ card = ""
    /\ firstCard = ""
    /\ attempts = 0
    /\ target = Zero
    /\ sent = NoCmd
    /\ sentOk = TRUE
    /\ tick = 0
    /\ cause = "none"
    /\ mhomes = 0
    /\ log = <<>>
    /\ gates = 0
    /\ btn = FALSE
    /\ releases = 0
    /\ wait = [gate |-> 0, polls |-> 0]

----------------------------------------------------------------------------
(* simple_ocr.py, number_extraction.  A string is a sequence of
   one-character strings. *)

Chars == {"0", "1", "/", "a"}
DigitChars == {"0", "1", "2", "3", "4", "5", "6", "7", "8", "9"}

(* ch.isdigit(), '0' <= ch <= '9' *)
isdigit(ch) == ch \in DigitChars

(* txt.split("/", maxsplit=1)[0]: what stands before the first "/" *)
split_first(txt) ==
    IF \E k \in 1 .. Len(txt) : txt[k] = "/"
    THEN LET k == CHOOSE k \in 1 .. Len(txt) :
                     /\ txt[k] = "/"
                     /\ \A j \in 1 .. (k - 1) : txt[j] # "/"
         IN SubSeq(txt, 1, k - 1)
    ELSE txt

(* number_extraction(txt) *)
number_extraction(txt) ==
    LET cut == IF \E k \in 1 .. Len(txt) : txt[k] = "/" THEN split_first(txt) ELSE txt
        digits == SelectSeq(cut, isdigit)
    IN IF Len(digits) = 4 THEN SubSeq(digits, 2, Len(digits)) ELSE digits

(* The arguments number_extraction is called with. *)
RECURSIVE Texts(_)
Texts(n) ==
    IF n = 0 THEN {<<>>}
    ELSE LET shorter == Texts(n - 1)
         IN shorter \cup {Append(t, c) : t \in {u \in shorter : Len(u) = n - 1}, c \in Chars}

----------------------------------------------------------------------------
(* simple_ocr.py, crop_image *)

max(a, b) == IF a >= b THEN a ELSE b
min(a, b) == IF a <= b THEN a ELSE b

(* One axis of a[start:stop] on an axis of length n: a negative bound counts
   from the end, both bounds are clamped to 0 .. n, and the slice is empty
   when stop is not after start. *)
slice_bound(k, n) == IF k < 0 THEN max(k + n, 0) ELSE min(k, n)
slice(start, stop, n) ==
    LET lo == slice_bound(start, n)
        hi == slice_bound(stop, n)
    IN [lo |-> lo, hi |-> max(lo, hi)]

(* The region img[y : y + h, x : x + w] as the rows y0 .. y1 - 1 and the
   columns x0 .. x1 - 1 of img. *)
Region(img_h, img_w, x, y, w, h) ==
    LET rows == slice(y, y + h, img_h)
        cols == slice(x, x + w, img_w)
    IN [y0 |-> rows.lo, y1 |-> rows.hi, x0 |-> cols.lo, x1 |-> cols.hi]

(* Faulty variant of crop_image: the size is capped but has no floor of 1. *)
crop_image_no_min_size(img_h, img_w, x, y, w, h) ==
    LET cx == max(0, min(x, img_w - 1))
        cy == max(0, min(y, img_h - 1))
        cw == min(w, img_w - cx)
        ch == min(h, img_h - cy)
    IN Region(img_h, img_w, cx, cy, cw, ch)

crop_image(img_h, img_w, x, y, w, h) ==
    LET cx == max(0, min(x, img_w - 1))
        cy == max(0, min(y, img_h - 1))
        cw == max(1, min(w, img_w - cx))
        ch == max(1, min(h, img_h - cy))
    IN Region(img_h, img_w, cx, cy, cw, ch)

(* Images of at least 1 x 1 pixels; coordinates and sizes from before the
   image to beyond it. *)
Dims == 1 .. MaxDim
CropInts == -1 .. MaxDim + 1
CropCalls == [img_h : Dims, img_w : Dims, x : CropInts, y : CropInts,
              w : CropInts, h : CropInts]

----------------------------------------------------------------------------
(* simple_ocr.py, get_line *)

NL == "\n"
LineChars == {"1", "a", NL}

(* text.splitlines(): the pieces between line breaks; a line break at the
   end of the text opens no further line. *)
RECURSIVE splitlines(_)
splitlines(text) ==
    IF text = <<>> THEN <<>>
    ELSE IF \E k \in 1 .. Len(text) : text[k] = NL
    THEN LET k == CHOOSE k \in 1 .. Len(text) :
                     /\ text[k] = NL
                     /\ \A j \in 1 .. k - 1 : text[j] # NL
         IN <<SubSeq(text, 1, k - 1)>> \o splitlines(SubSeq(text, k + 1, Len(text)))
    ELSE <<text>>

(* sum(1 for _ in digit_pat.finditer(line)) *)
count_digits(line) == Cardinality({k \in 1 .. Len(line) : isdigit(line[k])})

(* The for loop over enumerate(lines), from index k on (0-based): the first
   index whose line holds at least three digits, None when the loop ends. *)
RECURSIVE anchor_from(_, _)
anchor_from(lines, k) ==
    IF k >= Len(lines) THEN None
    ELSE IF count_digits(lines[k + 1]) >= 3 THEN Some(k)
    ELSE anchor_from(lines, k + 1)

(* How a call ends: with a value, or with an exception. *)
Returned(v) == [raised |-> "none", value |-> v]
Raised(e) == [raised |-> e, value |-> <<>>]

(* lines[k]: a negative index counts from the end; IndexError outside
   -len .. len - 1. *)
index(lines, k) ==
    IF 0 <= k /\ k < Len(lines) THEN Returned(lines[k + 1])
    ELSE IF k < 0 /\ 0 - k <= Len(lines) THEN Returned(lines[Len(lines) + k + 1])
    ELSE Raised("IndexError")

(* Faulty variant of get_line: the index is checked against the end only. *)
get_line_no_lower_check(text, line_num) ==
    LET lines == splitlines(text)
        anchor_idx == anchor_from(lines, 0)
    IN IF anchor_idx = None
       THEN IF line_num < Len(lines) THEN index(lines, line_num) ELSE Returned(<<>>)
       ELSE LET target_idx == Val(anchor_idx) + line_num
            IN IF target_idx < Len(lines)
               THEN index(lines, target_idx) ELSE Returned(<<>>)

get_line(text, line_num) ==
    LET lines == splitlines(text)
        anchor_idx == anchor_from(lines, 0)
    IN IF anchor_idx = None
       THEN IF 0 <= line_num /\ line_num < Len(lines)
            THEN index(lines, line_num) ELSE Returned(<<>>)
       ELSE LET target_idx == Val(anchor_idx) + line_num
            IN IF 0 <= target_idx /\ target_idx < Len(lines)
               THEN index(lines, target_idx) ELSE Returned(<<>>)

RECURSIVE LineTexts(_)
LineTexts(n) ==
    IF n = 0 THEN {<<>>}
    ELSE LET shorter == LineTexts(n - 1)
         IN shorter \cup {Append(t, c) : t \in {u \in shorter : Len(u) = n - 1},
                                         c \in LineChars}

LineNums == -2 .. 2

OcrFresh ==
    /\ inTxt = <<>>
    /\ num = None
    /\ cropIn = None
    /\ cropOut = None
    /\ lineIn = None
    /\ lineOut = None

----------------------------------------------------------------------------
(* The callers: a single thread that calls the public interface, one call
   after the other, with arguments drawn from the sets above.  A call that
   raised has returned; the caller may go on. *)

NoReq == [x |-> None, y |-> None, z |-> None, step_mm |-> 0, max_travel |-> None,
          card_name |-> None]
NoTarget == [a \in Axes |-> None]

(* Physical positions the stage may be in when the process starts. *)
StartStages == {Zero, Vec(100, 50, 20)}

LibFresh ==
    /\ pos = Zero
    /\ stage \in StartStages
    /\ njog = 0
    /\ jog = Zero
    /\ jogOk = TRUE
    /\ before = Zero
    /\ acc = Zero
    /\ exc = "none"
    /\ op = "none"
    /\ req = NoReq
    /\ pre = Zero
    /\ pc = "idle"
    /\ traveled = 0
    /\ polls = 0
    /\ lastPoll = FALSE
    /\ calls = 0
    /\ homes = 0
    /\ clean = TRUE
    /\ movesOnly = FALSE
    /\ lastTarget = NoTarget
    /\ dest = Zero
    /\ firstKin = None
    /\ fanoff = "none"

Init == LibFresh /\ MainFresh(1) /\ OcrFresh

Begin(name, r) ==
    /\ pc = "idle"
    /\ calls < MaxCalls
    /\ calls' = calls + 1
    /\ op' = name
    /\ req' = r
    /\ pre' = pos
    /\ UNCHANGED <<mainVars, ocrVars>>

CallMoveHead ==
    \E x \in XTargets, y \in YTargets, z \in ZTargets, accept \in BOOLEAN :
        LET w == move_head(Enter(World), x, y, z, accept)
            r == [NoReq EXCEPT !.x = x, !.y = y, !.z = z]
        IN /\ Begin("move_head", r)
           /\ Commit(w)
           /\ pc' = "idle"
           /\ clean' = (clean /\ w.exc = "none")
           /\ movesOnly' = (movesOnly /\ w.exc = "none")
           /\ lastTarget' = IF movesOnly /\ w.exc = "none"
                            THEN [a \in Axes |-> IF r[a] # None THEN r[a] ELSE lastTarget[a]]
                            ELSE NoTarget
           /\ UNCHANGED <<traveled, polls, lastPoll, dest, firstKin>>

CallHome ==
    \E homeAccept \in BOOLEAN, accept \in BOOLEAN :
        LET w == home_all_axes(Enter(World), homeAccept, accept)
        IN /\ Begin("home_all_axes", NoReq)
           /\ Commit(w)
           /\ pc' = "idle"
           /\ clean' = (clean /\ w.exc = "none")
           /\ movesOnly' = (w.exc = "none")
           /\ lastTarget' = NoTarget
           /\ UNCHANGED <<traveled, polls, lastPoll, dest, firstKin>>

CallInputStack ==
    \E accept \in BOOLEAN :
        LET w == move_to_input_stack(Enter(World), accept)
        IN /\ Begin("move_to_input_stack", NoReq)
           /\ Commit(w)
           /\ pc' = "idle"
           /\ clean' = (clean /\ w.exc = "none")
           /\ movesOnly' = FALSE
           /\ lastTarget' = NoTarget
           /\ UNCHANGED <<traveled, polls, lastPoll, dest, firstKin>>

(* Entry of lower_until_contact: traveled = 0.0, then the loop. *)
LowerEnter ==
    \E step_mm \in StepVals, max_travel \in MaxTravelVals :
        /\ Begin("lower_until_contact",
                 [NoReq EXCEPT !.step_mm = step_mm, !.max_travel = max_travel])
        /\ Commit(Enter(World))
        /\ pc' = "lowering"
        /\ traveled' = 0
        /\ polls' = 0
        /\ lastPoll' = FALSE
        /\ movesOnly' = FALSE
        /\ lastTarget' = NoTarget
        /\ UNCHANGED <<clean, dest, firstKin>>

(* One pass of its loop.  The sensor reads pressed or not; the stage accepts
   the jog or not. *)
LowerPass ==
    /\ pc = "lowering"
    /\ \E pressed \in BOOLEAN, accept \in BOOLEAN :
        LET r == lower_until_contact(World, req.step_mm, req.max_travel,
                                     traveled, pressed, accept)
        IN /\ r.w.njog <= MaxSteps
           /\ Commit(r.w)
           /\ traveled' = r.traveled
           /\ pc' = IF r.done THEN "idle" ELSE "lowering"
           /\ polls' = polls + 1
           /\ lastPoll' = pressed
           /\ clean' = (clean /\ r.w.exc # "jog")
    /\ UNCHANGED <<op, req, pre, calls, movesOnly, lastTarget, dest, firstKin>>
    /\ UNCHANGED <<mainVars, ocrVars>>

(* kinematics(card_name) *)
CallKinematics ==
    \E card_name \in CardNames :
        LET r == kinematics(Enter(World), card_name)
        IN /\ Begin("kinematics", [NoReq EXCEPT !.card_name = card_name])
           /\ Commit(r.w)
           /\ dest' = r.result
           /\ firstKin' = IF firstKin = None
                           THEN Some([card_name |-> card_name, result |-> r.result,
                                      at |-> calls + 1])
                           ELSE firstKin
           /\ pc' = "idle"
           /\ movesOnly' = FALSE
           /\ lastTarget' = NoTarget
           /\ UNCHANGED <<clean, traveled, polls, lastPoll>>

Next ==
    \/ CallMoveHead
    \/ CallHome
    \/ CallInputStack
    \/ LowerEnter
    \/ LowerPass

Spec == Init /\ [][Next]_vars

(* The same callers, who also call kinematics. *)
KinNext ==
    \/ Next
    \/ CallKinematics

KinSpec == Init /\ [][KinNext]_vars

(* drop_card(client) *)
CallDropCard ==
    \E accept \in BOOLEAN :
        LET w == drop_card(Enter(World), accept)
        IN /\ Begin("drop_card", NoReq)
           /\ Commit(w)
           /\ pc' = "idle"
           /\ clean' = (clean /\ w.exc = "none")
           /\ movesOnly' = FALSE
           /\ lastTarget' = NoTarget
           /\ UNCHANGED <<traveled, polls, lastPoll, dest, firstKin>>

(* The same callers, who also call drop_card. *)
DropNext ==
    \/ Next
    \/ CallDropCard

DropSpec == Init /\ [][DropNext]_vars

----------------------------------------------------------------------------
(* main(iterations), one action per statement.  Every call on the client
   either returns or raises; what was handed over is recorded either way. *)

Iterations == 1 .. MaxCycles

MainInit == LibFresh /\ OcrFresh /\ \E n \in Iterations : MainFresh(n)

(* The outcome of one client call made at statement mpc: r is the client
   after it, ok whether it returned, steps the cycle's log if it did. *)
Call(r, ok, nxt, steps) ==
    /\ sent' = r.sent
    /\ sentOk' = r.sentOk
    /\ tick' = r.tick
    /\ mhomes' = r.mhomes
    /\ releases' = r.releases
    /\ mpc' = Proceed(nxt, ok)
    /\ cause' = IF ok THEN cause ELSE mpc
    /\ log' = IF ok THEN steps ELSE log

(* Faulty variant of wait_for_button: it gives up waiting and returns. *)
wait_for_button_timeout(pressed, at, nxt) == nxt

(* Faulty variant of wait_for_button: edge-triggered, it wants a poll that
   reads not pressed before the one that reads pressed. *)
wait_for_button_edge(pressed, at, nxt) == IF pressed /\ ~btn THEN nxt ELSE at

(* wait_for_button: while not sensor.is_pressed(): sleep.  One poll: the
   statement that runs next. *)
wait_for_button(pressed, at, nxt) == IF pressed THEN nxt ELSE at

(* wait_for_button(button, ...) at statement at of main(), one poll per step. *)
WaitForButton(at, nxt) ==
    /\ mpc = at
    /\ \E pressed \in BOOLEAN :
           /\ btn' = pressed
           /\ mpc' = wait_for_button(pressed, at, nxt)
           /\ gates' = IF mpc' = at THEN gates ELSE gates + 1
           /\ wait' = IF wait.gate = gates + 1
                      THEN [wait EXCEPT !.polls = IF @ < MaxPolls THEN @ + 1 ELSE @]
                      ELSE [gate |-> gates + 1, polls |-> 1]
    /\ UNCHANGED <<iterations, i, fan, offCalled, card, firstCard, attempts,
                   target, sent, sentOk, tick, cause, mhomes, log, releases>>

MGate1 == WaitForButton("gate1", "home")
MGate2 == WaitForButton("gate2", "front_x")
MGate3 == WaitForButton("gate3", LoopHead(i, iterations))

(* home_all_axes(client) *)
MHome ==
    /\ mpc = "home"
    /\ \E accept \in BOOLEAN :
           Call(printer_home_all_axes(Rig, accept), accept, "gate2", log)
    /\ UNCHANGED <<iterations, i, fan, offCalled, card, firstCard, attempts, target,
                   gates, btn, wait>>

(* move_head(client, x=FRONT_X) *)
MFrontX ==
    /\ mpc = "front_x"
    /\ \E accept \in BOOLEAN :
           Call(main_move_head(Rig, Some(FRONT_X), None, None, accept), accept, "front_z", log)
    /\ UNCHANGED <<iterations, i, fan, offCalled, card, firstCard, attempts, target,
                   gates, btn, wait>>

(* move_head(client, z=BED_DOWN_Z) *)
MFrontZ ==
    /\ mpc = "front_z"
    /\ \E accept \in BOOLEAN :
           Call(main_move_head(Rig, None, None, Some(BED_DOWN_Z), accept), accept, "gate3", log)
    /\ UNCHANGED <<iterations, i, fan, offCalled, card, firstCard, attempts, target,
                   gates, btn, wait>>

(* a) move_head(client, x=INPUT_X, y=INPUT_Y, z=SAFE_Z): a cycle begins. *)
MInput ==
    /\ mpc = "input"
    /\ \E accept \in BOOLEAN :
           Call(main_move_head([Rig EXCEPT !.releases = 0],
                               Some(INPUT_X), Some(INPUT_Y), Some(SAFE_Z), accept),
                accept, "lower_poll", <<"input">>)
    /\ attempts' = 0
    /\ UNCHANGED <<iterations, i, fan, offCalled, card, firstCard, target, gates, btn, wait>>

(* b) lower_until_contact(client, sensor=button, step_mm=.5):
      while not sensor.is_pressed() *)
MLowerPoll ==
    /\ mpc = "lower_poll"
    /\ \E pressed \in BOOLEAN :
           /\ btn' = pressed
           /\ mpc' = IF pressed THEN "ocr" ELSE "lower_1"
           /\ log' = IF pressed THEN Append(log, "contact") ELSE log
    /\ UNCHANGED <<iterations, i, fan, offCalled, card, firstCard, attempts,
                   target, sent, sentOk, tick, cause, mhomes, gates, releases, wait>>

(* ... the body of the loop: G91, G1 Z-step F1500, G90 *)
MLowerCmd(k) ==
    /\ mpc = <<"lower_1", "lower_2", "lower_3">>[k]
    /\ \E accept \in BOOLEAN :
           Call(send_gcode(Rig, main_lower_until_contact(k), accept), accept,
                <<"lower_2", "lower_3", "lower_poll">>[k], log)
    /\ UNCHANGED <<iterations, i, fan, offCalled, card, firstCard, attempts, target,
                   gates, btn, wait>>

MLower1 == MLowerCmd(1)
MLower2 == MLowerCmd(2)
MLower3 == MLowerCmd(3)

(* c) card_type = run_ocr_and_get_type(): one capture, preprocessing,
      img_to_name.  A capture that yields no frame makes preprocessing raise;
      otherwise the label, possibly empty, is returned. *)
MOcr ==
    /\ mpc = "ocr"
    /\ \E img \in Frames, raw_text \in RawTexts, number \in Numbers,
          set_code \in SetCodes, name \in MainLabels :
          LET r == run_ocr_and_get_type(img, raw_text, number, set_code, name)
              ok == r.exc = "none"
          IN /\ mpc' = Proceed("kinematics", ok)
             /\ cause' = IF ok THEN cause ELSE "ocr"
             /\ card' = IF ok THEN r.name ELSE card
             /\ firstCard' = IF ok /\ attempts = 0 THEN r.name ELSE firstCard
             /\ log' = IF ok THEN Append(log, "ocr") ELSE log
    /\ attempts' = attempts + 1
    /\ UNCHANGED <<iterations, i, fan, offCalled, target, sent, sentOk, tick, mhomes,
                   gates, btn, releases, wait>>

(* d) target = kinematics(card_type) *)
MKinematics ==
    /\ mpc = "kinematics"
    /\ LET k == main_kinematics(card)
       IN /\ target' = IF k.exc = "none" THEN k.result ELSE target
          /\ mpc' = Proceed("lateral", k.exc = "none")
          /\ cause' = IF k.exc = "none" THEN cause ELSE "kinematics"
    /\ UNCHANGED <<iterations, i, fan, offCalled, card, firstCard, attempts,
                   sent, sentOk, tick, mhomes, log, gates, btn, releases, wait>>

(* e) move_head(client, x=target["x"], y=target["y"]) *)
MLateral ==
    /\ mpc = "lateral"
    /\ \E accept \in BOOLEAN :
           LET m == DestMoves(target)[1]
           IN Call(main_move_head(Rig, m.x, m.y, m.z, accept), accept, "vertical",
                   Append(log, "lateral"))
    /\ UNCHANGED <<iterations, i, fan, offCalled, card, firstCard, attempts, target,
                   gates, btn, wait>>

(*    move_head(client, z=target["z"]) *)
MVertical ==
    /\ mpc = "vertical"
    /\ \E accept \in BOOLEAN :
           LET m == DestMoves(target)[2]
           IN Call(main_move_head(Rig, m.x, m.y, m.z, accept), accept, "release",
                   Append(log, "vertical"))
    /\ UNCHANGED <<iterations, i, fan, offCalled, card, firstCard, attempts, target,
                   gates, btn, wait>>

(* f) drop_card(client): client.fan_off() ... *)
MRelease ==
    /\ mpc = "release"
    /\ \E accept \in BOOLEAN :
           Call(main_drop_card(Rig, 1, accept), accept, "lift", Append(log, "release"))
    /\ UNCHANGED <<iterations, i, fan, offCalled, card, firstCard, attempts, target,
                   gates, btn, wait>>

(*    ... then move_head(client, z=5) *)
MLift ==
    /\ mpc = "lift"
    /\ \E accept \in BOOLEAN :
           Call(main_drop_card(Rig, 2, accept), accept, "rehome", Append(log, "lift"))
    /\ UNCHANGED <<iterations, i, fan, offCalled, card, firstCard, attempts, target,
                   gates, btn, wait>>

(* g) home_all_axes(client): the cycle ends, the loop goes round. *)
MRehome ==
    /\ mpc = "rehome"
    /\ \E accept \in BOOLEAN :
           /\ Call(printer_home_all_axes(Rig, accept), accept,
                   LoopHead(i + 1, iterations), Append(log, "home"))
           /\ i' = IF accept THEN i + 1 ELSE i
    /\ UNCHANGED <<iterations, fan, offCalled, card, firstCard, attempts, target,
                   gates, btn, wait>>

(* fan.off(), after the loop *)
MFanOff ==
    /\ mpc = "fan_off"
    /\ fan' = "off"
    /\ offCalled' = TRUE
    /\ mpc' = "finished"
    /\ UNCHANGED <<iterations, i, card, firstCard, attempts, target,
                   sent, sentOk, tick, cause, mhomes, log, gates, btn, releases, wait>>

MainNext ==
    \/ MGate1 /\ UNCHANGED <<libVars, ocrVars>>
    \/ MHome /\ UNCHANGED <<libVars, ocrVars>>
    \/ MGate2 /\ UNCHANGED <<libVars, ocrVars>>
    \/ MFrontX /\ UNCHANGED <<libVars, ocrVars>>
    \/ MFrontZ /\ UNCHANGED <<libVars, ocrVars>>
    \/ MGate3 /\ UNCHANGED <<libVars, ocrVars>>
    \/ MInput /\ UNCHANGED <<libVars, ocrVars>>
    \/ MLowerPoll /\ UNCHANGED <<libVars, ocrVars>>
    \/ MLower1 /\ UNCHANGED <<libVars, ocrVars>>
    \/ MLower2 /\ UNCHANGED <<libVars, ocrVars>>
    \/ MLower3 /\ UNCHANGED <<libVars, ocrVars>>
    \/ MOcr /\ UNCHANGED <<libVars, ocrVars>>
    \/ MKinematics /\ UNCHANGED <<libVars, ocrVars>>
    \/ MLateral /\ UNCHANGED <<libVars, ocrVars>>
    \/ MVertical /\ UNCHANGED <<libVars, ocrVars>>
    \/ MRelease /\ UNCHANGED <<libVars, ocrVars>>
    \/ MLift /\ UNCHANGED <<libVars, ocrVars>>
    \/ MRehome /\ UNCHANGED <<libVars, ocrVars>>
    \/ MFanOff /\ UNCHANGED <<libVars, ocrVars>>

MainSpec == MainInit /\ [][MainNext]_vars

(* The interpreter keeps running main(): a statement that can run does. *)
MainFair == MainSpec /\ WF_vars(MainNext)

----------------------------------------------------------------------------
(* number_extraction called on every text of up to MaxTxt characters. *)

NumInit ==
    /\ LibFresh
    /\ MainFresh(1)
    /\ inTxt \in Texts(MaxTxt)
    /\ num = None
    /\ cropIn = None
    /\ cropOut = None
    /\ lineIn = None
    /\ lineOut = None

CallNumberExtraction ==
    /\ num = None
    /\ num' = Some(number_extraction(inTxt))
    /\ UNCHANGED <<inTxt, cropIn, cropOut, lineIn, lineOut, libVars, mainVars>>

NumNext == CallNumberExtraction

NumSpec == NumInit /\ [][NumNext]_vars

(* crop_image on its own: one call on an image and a rectangle *)
CropInit ==
    /\ LibFresh
    /\ MainFresh(1)
    /\ inTxt = <<>>
    /\ num = None
    /\ cropIn \in CropCalls
    /\ cropOut = None
    /\ lineIn = None
    /\ lineOut = None

CallCropImage ==
    /\ cropOut = None
    /\ cropOut' = Some(crop_image(cropIn.img_h, cropIn.img_w, cropIn.x, cropIn.y,
                                  cropIn.w, cropIn.h))
    /\ UNCHANGED <<inTxt, num, cropIn, lineIn, lineOut, libVars, mainVars>>

CropNext == CallCropImage

CropSpec == CropInit /\ [][CropNext]_vars

(* get_line on its own: one call on a text and a line number *)
LineInit ==
    /\ LibFresh
    /\ MainFresh(1)
    /\ inTxt = <<>>
    /\ num = None
    /\ cropIn = None
    /\ cropOut = None
    /\ lineIn \in [text : LineTexts(MaxLine), line_num : LineNums]
    /\ lineOut = None

CallGetLine ==
    /\ lineOut = None
    /\ lineOut' = Some(get_line(lineIn.text, lineIn.line_num))
    /\ UNCHANGED <<inTxt, num, cropIn, cropOut, lineIn, libVars, mainVars>>

LineNext == CallGetLine

LineSpec == LineInit /\ [][LineNext]_vars

----------------------------------------------------------------------------
(* Properties *)

Present(o) == o # None
IsLower == op = "lower_until_contact"
(* The target of the call on axis a is absent or equals the tracked value at the call. *)
NoDeltaOn(a) == req[a] = None \/ Val(req[a]) = pre[a]

\* C1: a move changes the tracked position only when client.jog has
\* returned: after a call that sent a jog, the tracked position is the
\* position at the entry of _jog_delta plus the delta when the jog was
\* accepted, and exactly that position on all three axes when the jog
\* raised; the exception then ends the call and reaches the caller, and for
\* move_head the position is the one the call started from.
C1_FailedJogLeavesTracker ==
    /\ njog = 0 => pos = pre
    /\ njog > 0 => pos = IF jogOk THEN Add(before, jog) ELSE before
    /\ (njog > 0 /\ ~jogOk) => (exc = "jog" /\ pc = "idle")
    /\ (njog > 0 /\ ~jogOk /\ op = "move_head") => pos = pre

C1_Witness ==
    /\ op = "move_head"
    /\ njog = 1
    /\ ~jogOk
    /\ jog.x # 0
    /\ exc = "jog"
    /\ pos = PostHome

\* C2: after every successful home_all_axes the tracked position is
\* (POST_HOME_X, POST_HOME_Y, POST_HOME_Z), whatever it was before.
C2_HomeGivesPostHome ==
    (op = "home_all_axes" /\ exc = "none") => pos = PostHome

\* C3: when no external call has raised and the stage has been homed, the
\* tracked position equals the physical position of the stage after every
\* home, move and descent step.
C3_TrackerEqualsStage ==
    (clean /\ homes > 0) => pos = stage

\* C4: after a successful home followed only by successful move_head calls,
\* each axis holds the last target requested on it, or the post-home offset
\* when no call requested that axis.
C4_LastTargetOrPostHome ==
    (movesOnly /\ lastTarget # NoTarget) =>
        \A a \in Axes :
            pos[a] = IF lastTarget[a] = None THEN PostHome[a] ELSE Val(lastTarget[a])

\* C5: a move_head whose deltas are all zero (each axis absent, or its
\* target equal to the tracked value) calls client.jog not at all, returns
\* without an exception and leaves the tracked position unchanged.
C5_ZeroDeltaSendsNothing ==
    (op = "move_head" /\ \A a \in Axes : NoDeltaOn(a)) =>
        (njog = 0 /\ exc = "none" /\ pc = "idle" /\ pos = pre)

C5_Witness ==
    /\ op = "move_head"
    /\ Present(req.x) /\ Val(req.x) = pre.x
    /\ req.y = None /\ req.z = None
    /\ pre = PostHome
    /\ njog = 0
    /\ exc = "none"

\* C6: the jog that move_head sends has, on each present axis, the target
\* minus the tracked value at the call, and 0 on each absent axis; it sends
\* at most one jog, and an absent axis keeps its tracked value.
C6_DeltaIsTargetMinusTracked ==
    op = "move_head" =>
        /\ njog <= 1
        /\ njog = 1 =>
              \A a \in Axes :
                  jog[a] = IF req[a] = None THEN 0 ELSE Val(req[a]) - pre[a]
        /\ \A a \in Axes : req[a] = None => pos[a] = pre[a]

C6_Witness ==
    /\ op = "move_head"
    /\ njog = 1 /\ jogOk
    /\ Present(req.x) /\ req.y = None /\ Present(req.z)
    /\ pre = PostHome
    /\ jog = Vec(10 - POST_HOME_X, 0, 40 - POST_HOME_Z)

\* C7: in every reachable state the tracked position is (0,0,0) plus the
\* component-wise sum of the deltas of the jogs the stage has accepted.
C7_TrackerIsSumOfAcceptedJogs ==
    pos = Add(Zero, acc)

C7_Witness ==
    /\ acc # Zero
    /\ acc.z # 0
    /\ njog > 0 /\ ~jogOk
    /\ calls = MaxCalls

\* C8: lower_until_contact whose first poll of the sensor reads pressed
\* sends no jog, leaves the tracked position unchanged and returns without
\* an exception, for every step_mm and max_travel (0 included).
C8_PressedAtEntrySendsNothing ==
    (IsLower /\ polls = 1 /\ lastPoll) =>
        (njog = 0 /\ pos = pre /\ exc = "none" /\ pc = "idle")

C8_Witness ==
    /\ IsLower /\ polls = 1 /\ lastPoll
    /\ req.max_travel = Some(0)
    /\ pc = "idle" /\ exc = "none"
    /\ pos = PostHome

C10_PollBeforeEveryStep ==
    [][ /\ (pc = "lowering" /\ polls' = polls + 1 /\ lastPoll') =>
              (njog' = njog /\ pos' = pos /\ stage' = stage
                 /\ exc' = "none" /\ pc' = "idle")
        /\ (pc = "lowering" /\ njog' # njog) =>
              (njog' = njog + 1 /\ polls' = polls + 1 /\ ~lastPoll')
        /\ (IsLower /\ lastPoll) => pc = "idle"
      ]_vars

C10_Witness ==
    /\ IsLower /\ lastPoll
    /\ Present(req.max_travel)
    /\ Val(req.max_travel) > 0
    /\ traveled >= Val(req.max_travel)
    /\ njog > 0
    /\ exc = "none" /\ pc = "idle"

\* C12: kinematics follows the decision table: None or "" gives
\* (POST_HOME_X - TILE_STEP, POST_HOME_Y); the special-case label gives
\* (POST_HOME_X + TILE_STEP, POST_HOME_Y); any other label gives
\* (POST_HOME_X, POST_HOME_Y + TILE_STEP); so exactly one of x and y differs
\* from the post-home value, by exactly TILE_STEP.
C12_DecisionTable ==
    op = "kinematics" =>
        LET c == req.card_name
            ex == dest.x - POST_HOME_X
            ey == dest.y - POST_HOME_Y
        IN /\ ~Truthy(c) => (ex = 0 - TILE_STEP /\ ey = 0)
           /\ (Truthy(c) /\ Val(c) = SPECIAL) => (ex = TILE_STEP /\ ey = 0)
           /\ (Truthy(c) /\ Val(c) # SPECIAL) => (ex = 0 /\ ey = TILE_STEP)
           /\ (ex = 0) # (ey = 0)
           /\ {ex, ey} \subseteq {0, TILE_STEP, 0 - TILE_STEP}

C12_Witness ==
    /\ op = "kinematics"
    /\ req.card_name = Some(SPECIAL)
    /\ dest.x = POST_HOME_X + TILE_STEP
    /\ dest.y = POST_HOME_Y
    /\ homes > 0

C14_HistoryFree ==
    [][ (calls' = calls + 1 /\ op' = "kinematics") =>
            /\ pos' = pos /\ stage' = stage /\ acc' = acc /\ homes' = homes
            /\ njog' = 0 /\ exc' = "none" /\ pc' = "idle"
            /\ (firstKin # None /\ Val(firstKin).card_name = req'.card_name) =>
                   dest' = Val(firstKin).result
      ]_vars

C14_Witness ==
    /\ op = "kinematics"
    /\ firstKin # None
    /\ Val(firstKin).at = 1
    /\ calls = 3
    /\ homes = 1
    /\ pos # Zero
    /\ Val(firstKin).card_name = req.card_name
    /\ dest = Val(firstKin).result

----------------------------------------------------------------------------
(* Properties of main(), checked under MainSpec and MainFair *)

LowerPcs == {"lower_poll", "lower_1", "lower_2", "lower_3"}
LateralCmd == Cmd("G1", Some(target.x), Some(target.y), None, FEEDRATE, 0)
VerticalCmd == Cmd("G1", None, None, Some(target.z), FEEDRATE, 0)
FullCycle == <<"input", "contact", "ocr", "lateral", "vertical", "release", "lift", "home">>

\* C11: in every cycle of main() the contact descent is bounded by a maximum
\* travel: once the descent has begun it ends, by contact or by aborting the
\* run, even when the sensor never reads pressed.
C11_DescentEnds ==
    [](mpc \in LowerPcs => <>(mpc \notin LowerPcs))

\* C15: when the first classification of a cycle returns the empty label the
\* cycle makes exactly two attempts, otherwise exactly one; the count is taken
\* when the cycle moves on to the destination.
C15_EmptyFirstAttemptRetriedOnce ==
    mpc = "lateral" => attempts = (IF firstCard = "" THEN 2 ELSE 1)

\* C16: with iterations = 1 and an empty classification the run does not abort
\* on the classification: the card is routed to the UNKNOWN destination, the
\* cycle is completed through release and re-home, the run finishes unless a
\* call on the client raises, and the fan is off with fan.off() called at the end.
C16_EmptyLabelRunFinishes ==
    /\ [](cause # "kinematics")
    /\ []((mpc \in {"lateral", "vertical", "release", "lift", "rehome"} /\ card = "")
            => target = mapping["UNKNOWN"])
    /\ []((mpc = "finished" /\ iterations = 1 /\ card = "")
            => /\ target = mapping["UNKNOWN"]
               /\ log = FullCycle
               /\ i = 1
               /\ cause = "none"
               /\ fan = "off"
               /\ offCalled)
    /\ ((mpc = "kinematics" /\ iterations = 1 /\ card = "")
            ~> (mpc = "finished" \/ (mpc = "aborted" /\ cause # "kinematics")))

C16_Witness ==
    /\ mpc = "finished"
    /\ iterations = 1
    /\ card = ""
    /\ target = Vec(150, -20, 10)
    /\ log = FullCycle
    /\ fan = "off"

\* C17: in every cycle the suction fan is switched on after the descent has
\* returned and before the capture, so it is on during capture, lateral
\* travel and Z adjustment up to the release.
C17_SuctionOnWhileCarrying ==
    mpc \in {"ocr", "kinematics", "lateral", "vertical", "release"} => fan = "on"

\* C18: the move to the destination is two commands: first one that targets
\* only (target.x, target.y), then one that targets only target.z; the Z
\* command is handed over only after the lateral one was accepted.
C18_LateralThenVertical ==
    /\ []((mpc = "vertical") => (sent = LateralCmd /\ sentOk))
    /\ []((mpc = "release") => (sent = VerticalCmd /\ sentOk))
    /\ []((mpc = "aborted" /\ cause = "lateral") => (sent = LateralCmd /\ ~sentOk))
    /\ [][ (mpc \in {"kinematics", "lateral", "vertical"} /\ tick' # tick)
             => \/ mpc = "lateral" /\ sent' = LateralCmd
                \/ mpc = "vertical" /\ sent' = VerticalCmd /\ sent = LateralCmd /\ sentOk ]_vars

C18_Witness ==
    /\ mpc = "release"
    /\ sent = VerticalCmd
    /\ sentOk
    /\ log = <<"input", "contact", "ocr", "lateral", "vertical">>
    /\ target = Vec(150, 20, 10)

\* C19: in every terminal state of main(), finished or aborted, fan.off() has
\* been called.
C19_OffInvokedBeforeExit ==
    mpc \in {"finished", "aborted"} => offCalled

\* C20: a call on the stage that raises ends the run: main() is aborted at
\* once, and afterwards no command is handed to the client, no home returns
\* and no cycle is started or completed.
C20_FailureAbortsRun ==
    /\ [](cause # "none" => mpc = "aborted")
    /\ [][ cause # "none"
             => /\ tick' = tick
                /\ sent' = sent
                /\ mhomes' = mhomes
                /\ i' = i
                /\ log' = log
                /\ mpc' = mpc ]_vars

C20_Witness ==
    /\ mpc = "aborted"
    /\ cause = "lateral"
    /\ ~sentOk
    /\ sent = LateralCmd
    /\ iterations = 2
    /\ i = 0

GatePcs == {"gate1", "gate2", "gate3"}
FrontXCmd == Cmd("G1", Some(FRONT_X), None, None, FEEDRATE, 0)
FrontZCmd == Cmd("G1", None, None, Some(BED_DOWN_Z), FEEDRATE, 0)

\* C21: the setup passes three button gates in order and without a timeout:
\* nothing is handed to the client before the first gate has read pressed,
\* home only after the first gate, the front moves only after the second, no
\* cycle before the third; a gate is left only by a poll that reads pressed,
\* and while main() waits at a gate nothing is handed to the client.
C21_GatesInOrder ==
    /\ [](gates = 0 => (sent = NoCmd /\ mhomes = 0))
    /\ [](gates = 1 => (sent \in {NoCmd, HomeCmd} /\ i = 0 /\ log = <<>>))
    /\ [](gates = 2 => (sent \in {HomeCmd, FrontXCmd, FrontZCmd} /\ i = 0 /\ log = <<>>))
    /\ [](gates <= 3)
    /\ [][ tick' # tick => gates >= 1 ]_vars
    /\ [][ (tick' # tick /\ sent'.g = "G1") => gates >= 2 ]_vars
    /\ [][ (log' # log \/ i' # i) => gates = 3 ]_vars
    /\ [][ (mpc \in GatePcs /\ mpc' # mpc) => (btn' = TRUE /\ gates' = gates + 1) ]_vars
    /\ [][ (mpc \in GatePcs) => (tick' = tick /\ sent' = sent /\ mhomes' = mhomes) ]_vars

C21_Witness ==
    /\ mpc = "gate3"
    /\ ~btn
    /\ gates = 2
    /\ mhomes = 1
    /\ sent = FrontZCmd
    /\ sentOk

\* C22: a run of main(N), N >= 1, in which no call raises and every awaited
\* press happens, completes N cycles, homes N + 1 times, calls fan.off() and
\* finishes; it is finished only with N cycles completed.
C22_RunsNCycles ==
    /\ [](mpc = "finished" => /\ i = iterations
                              /\ mhomes = iterations + 1
                              /\ cause = "none"
                              /\ offCalled
                              /\ fan = "off"
                              /\ gates = 3)
    /\ [](i <= iterations /\ mhomes <= i + 1)
    /\ [](mpc = "fan_off" => (i = iterations /\ ~offCalled))
    /\ (([](cause = "none") /\ []<>(mpc \notin LowerPcs)) => <>(mpc = "finished"))

C22_Witness ==
    /\ mpc = "finished"
    /\ iterations = 2
    /\ i = 2
    /\ mhomes = 3
    /\ offCalled
    /\ log = FullCycle

\* C23: the re-home that ends a cycle re-synchronizes the tracker: after
\* every successful home_all_axes that follows an earlier home, the tracked
\* position is the post-home offset, wherever the calls in between went.
C23_RehomeResynchronizes ==
    (op = "home_all_axes" /\ exc = "none" /\ homes >= 2 /\ pc = "idle") => pos = PostHome

\* C24: in every cycle the card is released exactly once, after the Z move
\* at the destination was accepted and before the re-home: no release between
\* contact and arrival, and no home handed over in a cycle before the release.
C24_ReleasedOnceInOrder ==
    /\ [](releases <= 1)
    /\ []((mpc \in LowerPcs \cup {"ocr", "kinematics", "lateral", "vertical", "release"})
            => releases = 0)
    /\ []((mpc \in {"lift", "rehome"}) => releases = 1)
    /\ []((i >= 1 /\ mpc \in {"input", "fan_off", "finished"}) => releases = 1)
    /\ [][ releases' = releases + 1
             => (mpc = "release" /\ sent = VerticalCmd /\ sentOk /\ sent' = FanOffCmd) ]_vars
    /\ [][ (tick' # tick /\ sent' = HomeCmd /\ gates = 3) => releases = 1 ]_vars

C24_Witness ==
    /\ mpc = "rehome"
    /\ releases = 1
    /\ log = <<"input", "contact", "ocr", "lateral", "vertical", "release", "lift">>
    /\ i = 1
    /\ iterations = 2

----------------------------------------------------------------------------
(* Further properties of the motion core, checked under Spec *)

InputStack == Vec(INPUT_STACK_X, INPUT_STACK_Y, INPUT_STACK_Z)

(* Downward steps of the current descent that the stage accepted. *)
StepsTaken == IF exc = "jog" THEN njog - 1 ELSE njog

\* C25: a descent that has taken k downward steps, however it ends, has the
\* tracked z at the starting z minus k * step_mm, the tracked x and y
\* unchanged, and traveled = k * step_mm.
C25_DescentFrame ==
    IsLower =>
        /\ pos = [pre EXCEPT !.z = pre.z - StepsTaken * req.step_mm]
        /\ traveled = StepsTaken * req.step_mm

C25_Witness ==
    /\ IsLower
    /\ pc = "idle"
    /\ exc = "limit"
    /\ req.step_mm = 2 /\ req.max_travel = Some(5)
    /\ njog = 3
    /\ pre = PostHome
    /\ pos = Vec(POST_HOME_X, POST_HOME_Y, POST_HOME_Z - 6)

C27_InputStackReached ==
    (op = "move_to_input_stack" /\ exc = "none") => pos = InputStack

\* C28: after home_all_axes, move_head(client, x=10) sends one jog with
\* dx = +10 and dy = dz = 0.
C28_SmokeTestMovesPlusTen ==
    (op = "move_head" /\ req.x = Some(10) /\ req.y = None /\ req.z = None
        /\ calls = 2 /\ homes = 1 /\ clean) =>
        (njog = 1 /\ jog = Vec(10, 0, 0))

\* C29: classification never raises into the cycle: whatever the capture,
\* the OCR, the parsing and the lookup yield, run_ocr_and_get_type returns a
\* label or "", so main() is never ended by it.
C29_ClassificationNeverRaises ==
    ~(mpc = "aborted" /\ cause = "ocr")

----------------------------------------------------------------------------
(* Property of number_extraction, checked under NumSpec *)

(* The digits of t that stand before its first "/", in their order. *)
RECURSIVE DigitsBeforeSlash(_)
DigitsBeforeSlash(t) ==
    IF t = <<>> THEN <<>>
    ELSE IF Head(t) = "/" THEN <<>>
    ELSE IF Head(t) \in DigitChars THEN <<Head(t)>> \o DigitsBeforeSlash(Tail(t))
    ELSE DigitsBeforeSlash(Tail(t))

\* C30: number_extraction returns the digits found before the first "/", in
\* their order; when exactly four are found it drops the first, which is
\* then always "0"; it returns the empty string when none is found.
C30_DropsOnlyLeadingZero ==
    num # None =>
        LET d == DigitsBeforeSlash(inTxt)
        IN /\ Len(d) # 4 => Val(num) = d
           /\ Len(d) = 4 => (Val(num) = Tail(d) /\ Head(d) = "0")
           /\ Len(d) = 0 => Val(num) = <<>>

----------------------------------------------------------------------------
(* Failure and default cases of the motion core *)

\* C33: a home_all_axes that fails leaves the tracked position at its
\* pre-call value: when client.home() raises no jog is sent; when the
\* post-home jog raises the stage has been reset but the tracker has not moved.
C33_FailedHomeKeepsTracker ==
    (op = "home_all_axes" /\ exc # "none") =>
        /\ pos = pre
        /\ exc = "home" => njog = 0
        /\ exc = "jog" => (njog = 1 /\ ~jogOk /\ stage = Zero)

C33_Witness ==
    /\ op = "home_all_axes"
    /\ exc = "jog"
    /\ stage = Zero
    /\ pre = Vec(10, 425, 5)
    /\ pos = pre

\* C34: drop_card never raises: whether client.fan_off() returns or fails,
\* the call returns normally, sends no jog and leaves the tracked position
\* and the stage as they were.
C34_DropCardNeverRaises ==
    [][ (op' = "drop_card" /\ calls' = calls + 1)
          => /\ exc' = "none"
             /\ njog' = 0
             /\ pos' = pos
             /\ stage' = stage
             /\ acc' = acc
             /\ homes' = homes
             /\ pc' = "idle" ]_vars

C34_Witness ==
    /\ op = "drop_card"
    /\ fanoff = "raised"
    /\ exc = "none"
    /\ pos = PostHome
    /\ stage = PostHome

\* C36: lower_until_contact without max_travel never raises the travel-limit
\* error; it ends only by a pressed poll or a failed jog, and a pass whose
\* poll reads not pressed and whose jog is accepted never ends it.
C36_NoLimitWithoutMaxTravel ==
    /\ []((IsLower /\ req.max_travel = None) =>
            /\ exc # "limit"
            /\ pc = "idle" => (lastPoll \/ exc = "jog"))
    /\ [][ (pc = "lowering" /\ req.max_travel = None /\ polls' = polls + 1 /\ ~lastPoll')
             => /\ njog' = njog + 1
                /\ jogOk' => (pc' = "lowering" /\ exc' = "none"
                                /\ traveled' = traveled + req.step_mm) ]_vars

C36_Witness ==
    /\ IsLower
    /\ req.max_travel = None
    /\ req.step_mm = 2
    /\ pc = "lowering"
    /\ njog = MaxSteps
    /\ traveled = 2 * MaxSteps
    /\ ~lastPoll

----------------------------------------------------------------------------
(* wait_for_button, checked under MainSpec *)

(* A step of main() in which wait_for_button polls the sensor. *)
GatePoll == mpc \in GatePcs /\ (wait' # wait \/ mpc' # mpc \/ btn' # btn)

\* C35: wait_for_button is level-triggered and has no side effect: it
\* returns at the first poll that reads pressed, whatever was read before
\* (also at its first poll, right after the previous gate); a poll that reads
\* not pressed keeps it waiting; while it waits nothing is handed to the
\* client and neither the tracked position, the stage nor the fan changes.
C35_LevelTriggeredNoSideEffect ==
    /\ [][ (GatePoll /\ btn' = TRUE) => (mpc' # mpc /\ gates' = gates + 1) ]_vars
    /\ [][ (GatePoll /\ btn' = FALSE) => (mpc' = mpc /\ gates' = gates) ]_vars
    /\ [][ (mpc \in GatePcs)
             => /\ tick' = tick /\ sent' = sent /\ sentOk' = sentOk
                /\ mhomes' = mhomes /\ releases' = releases
                /\ fan' = fan /\ offCalled' = offCalled
                /\ pos' = pos /\ stage' = stage ]_vars

C35_Witness ==
    /\ mpc = "front_x"
    /\ gates = 2
    /\ wait = [gate |-> 2, polls |-> 1]
    /\ btn
    /\ sent = HomeCmd

----------------------------------------------------------------------------
(* crop_image, checked under CropSpec *)

\* C31: crop_image clamps the rectangle to the image: for every image of at
\* least 1 x 1 pixels and all integers x, y, w, h the region returned lies
\* within the image and is at least 1 pixel wide and 1 pixel high.
C31_CropWithinImage ==
    cropOut # None =>
        LET r == Val(cropOut)
        IN /\ 0 <= r.x0 /\ r.x0 < r.x1 /\ r.x1 <= cropIn.img_w
           /\ 0 <= r.y0 /\ r.y0 < r.y1 /\ r.y1 <= cropIn.img_h

(* A corner beyond the image with an empty width and a negative height. *)
C31_Witness ==
    /\ cropOut # None
    /\ cropIn.img_w = 2 /\ cropIn.img_h = 3
    /\ cropIn.x = 3 /\ cropIn.y = -1 /\ cropIn.w = 0 /\ cropIn.h = -1
    /\ Val(cropOut) = [y0 |-> 0, y1 |-> 1, x0 |-> 1, x1 |-> 2]

----------------------------------------------------------------------------
(* get_line, checked under LineSpec *)

(* The lines of the text, numbered from 0, that hold at least three digits. *)
NumericLines(L) ==
    {k \in 0 .. Len(L) - 1 :
        Cardinality({j \in 1 .. Len(L[k + 1]) : L[k + 1][j] \in DigitChars}) >= 3}

\* C32: get_line(text, n) returns the line n positions after the first line
\* with at least three digits, the raw n-th line when no line has three
\* digits, and the empty string when that index is negative or past the last
\* line; it never raises.
C32_LineAfterAnchor ==
    lineOut # None =>
        LET L == splitlines(lineIn.text)
            A == NumericLines(L)
            first == IF A = {} THEN 0
                     ELSE CHOOSE k \in A : \A j \in A : k <= j
            idx == first + lineIn.line_num
        IN /\ Val(lineOut).raised = "none"
           /\ Val(lineOut).value = IF 0 <= idx /\ idx < Len(L) THEN L[idx + 1] ELSE <<>>

(* The numeric line is the second line and the line two before it is asked
   for: there is none, although lines[-1] exists. *)
C32_Witness ==
    /\ lineOut # None
    /\ lineIn.text = <<"a", NL, "1", "1", "1">>
    /\ lineIn.line_num = -2
    /\ Val(lineOut) = Returned(<<>>)

====
